---- MODULE Spec2Model ----
(***************************************************************************)
(* Model of httpie/core.py: the request builder get_requests_kwargs, the   *)
(* exit-status mapping get_exist_status and the program driver main with   *)
(* its try/except cascade.                                                 *)
(*                                                                         *)
(* Text written to a stream is a sequence of string tokens; a stream is    *)
(* the sequence of the write() calls made on it.  env.stderr and           *)
(* sys.stderr are the same stream in the default Environment, every write  *)
(* records the handle it went through ("env" or "sys").                    *)
(***************************************************************************)
EXTENDS Integers, Sequences, FiniteSets, TLC

VARIABLES
    raw_args,        \* main's `args` parameter: the flags in the raw list
    env,             \* the Environment: [stdout_isatty]
    debug,           \* core.py:113
    traceback,       \* core.py:114
    status,          \* core.py:115, the local `status`
    args,            \* the parsed Arguments (core.py:123), mutated by the builder
    args_in,         \* the Arguments as the builder was given them
    kwargs,          \* core.py:124
    kwargs2,         \* what a second call of the builder on `args` returns
    response,        \* core.py:130
    stream,          \* core.py:138, the chunks not yet written
    stdout,          \* chunks written to env.stdout
    stderr,          \* write() calls made on stderr
    pc,              \* position of main
    exc,             \* the exception raised in this run, NoExc if none
    at_raise,        \* stderr length, stdout and `status` when exc was raised
    requests_calls,  \* number of calls of requests.request
    returned         \* value returned by main, NotReturned before

vars == <<raw_args, env, debug, traceback, status, args, args_in, kwargs,
          kwargs2, response, stream, stdout, stderr, pc, exc, at_raise,
          requests_calls, returned>>

----------------------------------------------------------------------------
(* Bounds *)

MaxChunks == 2
MaxTimeout == 2
MaxItems == 2

----------------------------------------------------------------------------
(* Constants of the program *)

FORM == "application/x-www-form-urlencoded; charset=utf-8"
JSON == "application/json; charset=utf-8"

\* httpie.EXIT: 0 for OK, distinct nonzero codes for the others
EXIT == [OK |-> 0, ERROR |-> 1, ERROR_TIMEOUT |-> 2,
         ERROR_HTTP_3XX |-> 3, ERROR_HTTP_4XX |-> 4, ERROR_HTTP_5XX |-> 5]

ExitStatus == {EXIT.OK, EXIT.ERROR, EXIT.ERROR_TIMEOUT,
               EXIT.ERROR_HTTP_3XX, EXIT.ERROR_HTTP_4XX, EXIT.ERROR_HTTP_5XX}

EPIPE == "EPIPE"
EIO == "EIO"

\* Python None for the locals that hold a record
NoArgs == [parsed |-> FALSE]
NoKwargs == [built |-> FALSE]
NoResponse == [received |-> FALSE]
NoExc == [type |-> "None", errno |-> "None", msg |-> "", at |-> "None"]
NotReturned == -1
NoRaise == [stderr_len |-> 0, stdout |-> <<>>, status |-> 0]

\* args.data: None, a dict of items, or a raw string
NoData == [kind |-> "None", val |-> <<>>]
DictData(items) == [kind |-> "dict", val |-> items]
StrData(text) == [kind |-> "str", val |-> text]

\* args.auth: None is <<>>, a pair is <<key, value>>
NoAuth == <<>>
NoCredentials == [scheme |-> "None", key |-> "", value |-> ""]

----------------------------------------------------------------------------
(* get_exist_status, core.py:87-99 *)

\* get_exist_status with the test of core.py:92 written 400 < code
get_exist_status_open400(code, allow_redirects) ==
    IF 300 <= code /\ code <= 399 /\ ~allow_redirects THEN EXIT.ERROR_HTTP_3XX
    ELSE IF 400 < code /\ code <= 499 THEN EXIT.ERROR_HTTP_4XX
    ELSE IF 500 <= code /\ code <= 599 THEN EXIT.ERROR_HTTP_5XX
    ELSE EXIT.OK

get_exist_status(code, allow_redirects) ==
    IF 300 <= code /\ code <= 399 /\ ~allow_redirects THEN EXIT.ERROR_HTTP_3XX
    ELSE IF 400 <= code /\ code <= 499 THEN EXIT.ERROR_HTTP_4XX
    ELSE IF 500 <= code /\ code <= 599 THEN EXIT.ERROR_HTTP_5XX
    ELSE EXIT.OK

----------------------------------------------------------------------------
(* get_requests_kwargs, core.py:36-84 *)

\* Python truthiness of args.data
DataTruthy(data) == data.kind # "None" /\ data.val # <<>>

\* `'Content-Type' in args.headers`
HasHeader(headers, name) == name \in DOMAIN headers

\* `args.headers[name] = value`
SetHeader(headers, name, value) ==
    [n \in (DOMAIN headers) \cup {name} |->
        IF n = name THEN value ELSE headers[n]]

\* json.dumps of a dict of string items
RECURSIVE JsonItems(_)
JsonItems(items) ==
    IF items = <<>> THEN <<>>
    ELSE <<"\"", Head(items)[1], "\": \"", Head(items)[2], "\"">>
         \o (IF Tail(items) = <<>> THEN <<>> ELSE <<", ">>)
         \o JsonItems(Tail(items))

json_dumps(items) == <<"{">> \o JsonItems(items) \o <<"}">>

\* core.py:39 with no implicit JSON
auto_json_never(a) == FALSE

\* core.py:39
auto_json(a) == DataTruthy(a.data) /\ ~a.form

\* core.py:40
JsonBranch(a) == a.json \/ auto_json(a)

\* core.py:39-57 with core.py:41 testing isinstance(args.data, dict)
BuiltHeaders_dictonly(a) ==
    IF JsonBranch(a) THEN
        LET h1 == IF ~HasHeader(a.headers, "Content-Type")
                     /\ DataTruthy(a.data) /\ a.data.kind = "dict"
                  THEN SetHeader(a.headers, "Content-Type", JSON)
                  ELSE a.headers
        IN  IF ~HasHeader(h1, "Accept")
            THEN SetHeader(h1, "Accept", "application/json")
            ELSE h1
    ELSE IF a.form THEN
        IF ~a.files /\ ~HasHeader(a.headers, "Content-Type")
        THEN SetHeader(a.headers, "Content-Type", FORM)
        ELSE a.headers
    ELSE a.headers

\* core.py:39-57 with core.py:54 not testing args.files
BuiltHeaders_nofiles(a) ==
    IF JsonBranch(a) THEN
        LET h1 == IF ~HasHeader(a.headers, "Content-Type") /\ DataTruthy(a.data)
                  THEN SetHeader(a.headers, "Content-Type", JSON)
                  ELSE a.headers
        IN  IF ~HasHeader(h1, "Accept")
            THEN SetHeader(h1, "Accept", "application/json")
            ELSE h1
    ELSE IF a.form THEN
        IF ~HasHeader(a.headers, "Content-Type")
        THEN SetHeader(a.headers, "Content-Type", FORM)
        ELSE a.headers
    ELSE a.headers

\* args.headers after core.py:39-57
BuiltHeaders(a) ==
    IF JsonBranch(a) THEN
        LET h1 == IF ~HasHeader(a.headers, "Content-Type") /\ DataTruthy(a.data)
                  THEN SetHeader(a.headers, "Content-Type", JSON)
                  ELSE a.headers
        IN  IF ~HasHeader(h1, "Accept")
            THEN SetHeader(h1, "Accept", "application/json")
            ELSE h1
    ELSE IF a.form THEN
        IF ~a.files /\ ~HasHeader(a.headers, "Content-Type")
        THEN SetHeader(a.headers, "Content-Type", FORM)
        ELSE a.headers
    ELSE a.headers

\* core.py:48-51 without the isinstance test: a string is dumped as well
BuiltData_nocheck(a) ==
    IF JsonBranch(a) /\ a.data.kind # "None"
    THEN IF DataTruthy(a.data)
         THEN IF a.data.kind = "dict"
              THEN StrData(json_dumps(a.data.val))
              ELSE StrData(<<"\"">> \o a.data.val \o <<"\"">>)
         ELSE NoData
    ELSE a.data

\* core.py:48-51 dumping an empty dict as well
BuiltData_dumps_empty(a) ==
    IF JsonBranch(a) /\ a.data.kind = "dict"
    THEN StrData(json_dumps(a.data.val))
    ELSE a.data

\* args.data after core.py:39-57
BuiltData(a) ==
    IF JsonBranch(a) /\ a.data.kind = "dict"
    THEN IF DataTruthy(a.data) THEN StrData(json_dumps(a.data.val)) ELSE NoData
    ELSE a.data

\* the Arguments as core.py:39-57 leaves them
MutatedArgs(a) == [a EXCEPT !.headers = BuiltHeaders(a), !.data = BuiltData(a)]

\* the lookup of core.py:61-64 falling back to basic auth
AuthClass_default(auth_type) ==
    CASE auth_type = "digest" -> "HTTPDigestAuth"
      [] OTHER -> "HTTPBasicAuth"

\* core.py:61-64, the lookup in the dict of credential classes
AuthClass(auth_type) ==
    CASE auth_type = "basic" -> "HTTPBasicAuth"
      [] auth_type = "digest" -> "HTTPDigestAuth"
      [] OTHER -> "KeyError"

\* core.py:64 raises KeyError
AuthRaises(a) == a.auth # NoAuth /\ AuthClass(a.auth_type) = "KeyError"

\* core.py:59-64
Credentials(a) ==
    IF a.auth # NoAuth
    THEN [scheme |-> AuthClass(a.auth_type),
          key |-> a.auth[1], value |-> a.auth[2]]
    ELSE NoCredentials

\* core.py:72-75 without the 'no' entry
Verify_yesonly(v) ==
    IF v = "yes" THEN [t |-> "bool", v |-> "True"]
    ELSE [t |-> "str", v |-> v]

\* core.py:72-75
Verify(v) ==
    IF v = "yes" THEN [t |-> "bool", v |-> "True"]
    ELSE IF v = "no" THEN [t |-> "bool", v |-> "False"]
    ELSE [t |-> "str", v |-> v]

\* str.lower on the method names in use
Lower(m) ==
    CASE m = "GET" -> "get"
      [] m = "POST" -> "post"
      [] OTHER -> m

\* core.py:78, later entries win
RECURSIVE Proxies(_)
Proxies(proxy) ==
    IF proxy = <<>> THEN <<>>
    ELSE LET last == proxy[Len(proxy)]
             rest == Proxies(SubSeq(proxy, 1, Len(proxy) - 1))
         IN  SelectSeq(rest, LAMBDA p : p[1] # last[1]) \o <<last>>

\* core.py:66-84, on the Arguments as mutated above
get_requests_kwargs(a) ==
    LET m == MutatedArgs(a)
    IN  [built |-> TRUE,
         prefetch |-> FALSE,
         method |-> Lower(m.method),
         url |-> m.url,
         headers |-> m.headers,
         data |-> m.data,
         verify |-> Verify(m.verify),
         timeout |-> m.timeout,
         auth |-> Credentials(m),
         proxies |-> Proxies(m.proxy),
         files |-> m.files,
         allow_redirects |-> m.allow_redirects,
         params |-> m.params]

----------------------------------------------------------------------------
(* Exceptions *)

\* the exception kinds the collaborators raise
KeyboardInterrupt == [type |-> "KeyboardInterrupt", errno |-> "None", msg |-> ""]
SystemExit == [type |-> "SystemExit", errno |-> "None", msg |-> "2"]
Timeout == [type |-> "Timeout", errno |-> "None", msg |-> "timed out"]
ConnectionError == [type |-> "ConnectionError", errno |-> "None",
                    msg |-> "connection refused"]
BrokenPipe == [type |-> "IOError", errno |-> EPIPE, msg |-> "Broken pipe"]
OtherIOError == [type |-> "IOError", errno |-> EIO, msg |-> "Input/output error"]
KeyError(key) == [type |-> "KeyError", errno |-> "None", msg |-> key]

\* isinstance(e, (KeyboardInterrupt, SystemExit)), core.py:152
IsInterrupt(e) == e.type \in {"KeyboardInterrupt", "SystemExit"}

\* isinstance(e, requests.Timeout), core.py:157
IsTimeout(e) == e.type = "Timeout"

\* isinstance(e, IOError), core.py:145
IsIOError(e) == e.type = "IOError"

\* isinstance(e, Exception), core.py:160
IsException(e) == e.type \in {"Timeout", "ConnectionError", "IOError", "KeyError"}

\* what the collaborator called at each stage of the try block can raise:
\* an interrupt can arrive in any of the calls, requests.Timeout comes from
\* the transport only (requests.request, and the lazy read of the body under
\* write()); the KeyError of the builder is raised by BuildRaise.  The
\* handlers themselves are taken not to fail.
Raisable(stage) ==
    CASE stage = "parse" -> {SystemExit, KeyboardInterrupt, OtherIOError}
      [] stage = "build" -> {KeyboardInterrupt}
      [] stage = "request" -> {Timeout, ConnectionError, BrokenPipe,
                               KeyboardInterrupt, SystemExit}
      [] stage = "output" -> {KeyboardInterrupt}
      [] stage = "write" -> {BrokenPipe, OtherIOError, KeyboardInterrupt,
                             SystemExit, Timeout, ConnectionError}

Raised(e, stage) == [type |-> e.type, errno |-> e.errno, msg |-> e.msg,
                     at |-> stage]

----------------------------------------------------------------------------
(* Text written to stderr *)

\* one write() call on sys.stderr or env.stderr
SysWrite(text) == [via |-> "sys", text |-> text]
EnvWrite(text) == [via |-> "env", text |-> text]

\* core.py:148 and core.py:155
Newline == EnvWrite(<<"\n">>)

\* main.error, core.py:109-111, msg already formatted
error(msg) == EnvWrite(<<"\nhttp: error: ">> \o msg \o <<"\n">>)

\* core.py:136, '%s %s' % (response.raw.status, response.raw.reason)
StatusLine(r) == <<ToString(r.raw.status), " ", r.raw.reason>>

\* core.py:159, 'Request timed out (%ss).' % args.timeout
TimedOutMsg(timeout) == <<"Request timed out (", ToString(timeout), "s).">>

\* core.py:165, '%s: %s' % (type(e).__name__, str(e))
ExceptionMsg(e) == <<e.type, ": ", e.msg>>

\* core.py:117-120
VersionLines ==
    << SysWrite(<<"HTTPie version: ", "httpie_version", "\n">>),
       SysWrite(<<"Requests version: ", "requests_version", "\n">>),
       SysWrite(<<"Pygments version: ", "pygments_version", "\n">>) >>

\* core.py:126-128
RequestDump == SysWrite(<<"\n>>> requests.request(", "pformat(kwargs)", ")\n\n">>)

----------------------------------------------------------------------------
(* Inputs *)

Flags == {"--debug", "--traceback"}

Timeouts == 1..MaxTimeout

StatusCodes == {200, 299, 300, 301, 399, 400, 404, 499, 500, 503, 599, 600}

\* reason phrase of the raw response
Reason(code) ==
    CASE code = 200 -> "OK"
      [] code = 301 -> "Moved Permanently"
      [] code = 404 -> "Not Found"
      [] code = 500 -> "Internal Server Error"
      [] code = 503 -> "Service Unavailable"
      [] OTHER -> "Unknown"

\* what requests.request can return
Responses ==
    { [received |-> TRUE, status_code |-> c,
       raw |-> [status |-> c, reason |-> Reason(c)]] : c \in StatusCodes }

\* what parser.parse_args can return for the raw list
ParsedArguments(raw) ==
    { [parsed |-> TRUE,
       method |-> "GET", url |-> "http://x/",
       headers |-> <<>>, data |-> d, json |-> FALSE, form |-> FALSE,
       files |-> FALSE,
       auth |-> au[1], auth_type |-> au[2],
       verify |-> "yes", timeout |-> t, proxy |-> <<>>,
       allow_redirects |-> ar, params |-> <<>>,
       check_status |-> cs, stream |-> FALSE,
       debug |-> ("--debug" \in raw)] :
         d \in {NoData, DictData(<< <<"a", "b">> >>)},
         au \in {<<NoAuth, "basic">>, <<<<"user", "pw">>, "basic">>,
                 <<<<"user", "pw">>, "digest">>, <<<<"user", "pw">>, "ntlm">>},
         t \in Timeouts, ar \in BOOLEAN, cs \in BOOLEAN }

\* the chunks output_stream yields
Chunks(n) == [i \in 1..n |-> i]

----------------------------------------------------------------------------
(* main, core.py:102-168 *)

Init ==
    /\ raw_args \in SUBSET Flags
    /\ env \in [stdout_isatty : BOOLEAN]
    /\ debug = FALSE
    /\ traceback = FALSE
    /\ status = EXIT.OK
    /\ args = NoArgs
    /\ args_in = NoArgs
    /\ kwargs = NoKwargs
    /\ kwargs2 = NoKwargs
    /\ response = NoResponse
    /\ stream = <<>>
    /\ stdout = <<>>
    /\ stderr = <<>>
    /\ pc = "start"
    /\ exc = NoExc
    /\ at_raise = NoRaise
    /\ requests_calls = 0
    /\ returned = NotReturned

\* `raise` inside the outer try block
Raise(e, stage) ==
    /\ exc' = Raised(e, stage)
    /\ at_raise' = [stderr_len |-> Len(stderr), stdout |-> stdout,
                     status |-> status]
    /\ pc' = IF stage = "write" THEN "except_inner" ELSE "except"

\* core.py:113-120
Start ==
    /\ pc = "start"
    /\ debug' = ("--debug" \in raw_args)
    /\ traceback' = (debug' \/ "--traceback" \in raw_args)
    /\ status' = EXIT.OK
    /\ stderr' = IF debug' THEN stderr \o VersionLines ELSE stderr
    /\ pc' = "parse"
    /\ UNCHANGED <<raw_args, env, args_in, kwargs2, args, kwargs, response, stream, stdout,
                   exc, at_raise, requests_calls, returned>>

\* core.py:123
Parse ==
    /\ pc = "parse"
    /\ \E a \in ParsedArguments(raw_args) : args' = a
    /\ args_in' = args'
    /\ pc' = "build"
    /\ UNCHANGED <<raw_args, env, kwargs2, debug, traceback, status, kwargs, response,
                   stream, stdout, stderr, exc, at_raise,
                   requests_calls, returned>>

\* core.py:123, parse_args raises
ParseRaise ==
    /\ pc = "parse"
    /\ \E e \in Raisable("parse") : Raise(e, "parse")
    /\ UNCHANGED <<raw_args, env, args_in, kwargs2, debug, traceback, status, args, kwargs,
                   response, stream, stdout, stderr, 
                   requests_calls, returned>>

\* core.py:124-128
Build ==
    /\ pc = "build"
    /\ ~AuthRaises(args)
    /\ kwargs' = get_requests_kwargs(args)
    /\ args' = MutatedArgs(args)
    /\ stderr' = IF args.debug THEN Append(stderr, RequestDump) ELSE stderr
    /\ pc' = "request"
    /\ UNCHANGED <<raw_args, env, args_in, kwargs2, debug, traceback, status, response, stream,
                   stdout, exc, at_raise, requests_calls, returned>>

\* core.py:124, the lookup of core.py:64 raises KeyError
BuildRaise ==
    /\ pc = "build"
    /\ \/ /\ AuthRaises(args)
          /\ Raise(KeyError(args.auth_type), "build")
       \/ \E e \in Raisable("build") : Raise(e, "build")
    /\ args' = MutatedArgs(args)
    /\ UNCHANGED <<raw_args, env, args_in, kwargs2, debug, traceback, status, kwargs, response,
                   stream, stdout, stderr,  requests_calls,
                   returned>>

\* core.py:130
Request ==
    /\ pc = "request"
    /\ requests_calls' = requests_calls + 1
    /\ \E r \in Responses : response' = r
    /\ pc' = "check"
    /\ UNCHANGED <<raw_args, env, args_in, kwargs2, debug, traceback, status, args, kwargs,
                   stream, stdout, stderr, exc, at_raise, returned>>

\* core.py:130, requests.request raises
RequestRaise ==
    /\ pc = "request"
    /\ requests_calls' = requests_calls + 1
    /\ \E e \in Raisable("request") : Raise(e, "request")
    /\ UNCHANGED <<raw_args, env, args_in, kwargs2, debug, traceback, status, args, kwargs,
                   response, stream, stdout, stderr,  returned>>

\* core.py:132-136 without the test of args.check_status
CheckStatus_always ==
    /\ pc = "check"
    /\ status' = get_exist_status(response.status_code, args.allow_redirects)
    /\ stderr' = IF status' # 0 /\ ~env.stdout_isatty
                 THEN Append(stderr, error(StatusLine(response)))
                 ELSE stderr
    /\ pc' = "output"
    /\ UNCHANGED <<raw_args, env, args_in, kwargs2, debug, traceback, args, kwargs, response,
                   stream, stdout, exc, at_raise, requests_calls, returned>>

\* core.py:132-136 without the test of env.stdout_isatty
CheckStatus_tty ==
    /\ pc = "check"
    /\ status' = IF args.check_status
                 THEN get_exist_status(response.status_code,
                                       args.allow_redirects)
                 ELSE status
    /\ stderr' = IF args.check_status /\ status' # 0
                 THEN Append(stderr, error(StatusLine(response)))
                 ELSE stderr
    /\ pc' = "output"
    /\ UNCHANGED <<raw_args, env, args_in, kwargs2, debug, traceback, args, kwargs, response,
                   stream, stdout, exc, at_raise, requests_calls, returned>>

\* core.py:132-136 without the call of error()
CheckStatus_silent ==
    /\ pc = "check"
    /\ status' = IF args.check_status
                 THEN get_exist_status(response.status_code,
                                       args.allow_redirects)
                 ELSE status
    /\ pc' = "output"
    /\ UNCHANGED <<raw_args, env, args_in, kwargs2, debug, traceback, args,
                   kwargs, response, stream, stdout, stderr, exc, at_raise,
                   requests_calls, returned>>

\* core.py:132-136
CheckStatus ==
    /\ pc = "check"
    /\ status' = IF args.check_status
                 THEN get_exist_status(response.status_code,
                                       args.allow_redirects)
                 ELSE status
    /\ stderr' = IF args.check_status /\ status' # 0 /\ ~env.stdout_isatty
                 THEN Append(stderr, error(StatusLine(response)))
                 ELSE stderr
    /\ pc' = "output"
    /\ UNCHANGED <<raw_args, env, args_in, kwargs2, debug, traceback, args, kwargs, response,
                   stream, stdout, exc, at_raise, requests_calls,
                   returned>>

\* core.py:138
OutputStream ==
    /\ pc = "output"
    /\ \E n \in 0..MaxChunks : stream' = Chunks(n)
    /\ pc' = "write"
    /\ UNCHANGED <<raw_args, env, args_in, kwargs2, debug, traceback, status, args, kwargs,
                   response, stdout, stderr, exc, at_raise, requests_calls,
                   returned>>

\* core.py:138, output_stream raises
OutputStreamRaise ==
    /\ pc = "output"
    /\ \E e \in Raisable("output") : Raise(e, "output")
    /\ UNCHANGED <<raw_args, env, args_in, kwargs2, debug, traceback, status, args, kwargs,
                   response, stream, stdout, stderr, 
                   requests_calls, returned>>

\* core.py:141-143, write() puts the next chunk on env.stdout
WriteChunk ==
    /\ pc = "write"
    /\ stream # <<>>
    /\ stdout' = Append(stdout, Head(stream))
    /\ stream' = Tail(stream)
    /\ UNCHANGED <<raw_args, env, args_in, kwargs2, debug, traceback, status, args, kwargs,
                   response, stderr, pc, exc, at_raise,
                   requests_calls, returned>>

\* core.py:141-143, write() returns when the stream is exhausted
WriteDone ==
    /\ pc = "write"
    /\ stream = <<>>
    /\ pc' = "return"
    /\ UNCHANGED <<raw_args, env, args_in, kwargs2, debug, traceback, status, args, kwargs,
                   response, stream, stdout, stderr, exc, at_raise,
                   requests_calls, returned>>

\* core.py:141-143, write() raises at the next chunk or at the final flush
WriteRaise ==
    /\ pc = "write"
    /\ \E e \in Raisable("write") : Raise(e, "write")
    /\ UNCHANGED <<raw_args, env, args_in, kwargs2, debug, traceback, status, args, kwargs,
                   response, stream, stdout, stderr, 
                   requests_calls, returned>>

\* core.py:145-150 without the test of traceback
ExceptIOError_swallow ==
    /\ pc = "except_inner"
    /\ IF IsIOError(exc) /\ exc.errno = EPIPE
       THEN /\ stderr' = Append(stderr, Newline)
            /\ pc' = "return"
       ELSE /\ pc' = "except"
            /\ UNCHANGED stderr
    /\ UNCHANGED <<raw_args, env, args_in, kwargs2, debug, traceback, status, args, kwargs,
                   response, stream, stdout, exc, at_raise, requests_calls,
                   returned>>

\* core.py:145-150 always re-raising
ExceptIOError_reraise ==
    /\ pc = "except_inner"
    /\ pc' = "except"
    /\ UNCHANGED <<raw_args, env, args_in, kwargs2, debug, traceback, status, args, kwargs,
                   response, stream, stdout, stderr, exc, at_raise,
                   requests_calls, returned>>

\* core.py:145-150 without the test of e.errno
ExceptIOError_anyerrno ==
    /\ pc = "except_inner"
    /\ IF IsIOError(exc) /\ ~traceback
       THEN /\ stderr' = Append(stderr, Newline)
            /\ pc' = "return"
       ELSE /\ pc' = "except"
            /\ UNCHANGED stderr
    /\ UNCHANGED <<raw_args, env, args_in, kwargs2, debug, traceback, status, args, kwargs,
                   response, stream, stdout, exc, at_raise, requests_calls,
                   returned>>

\* core.py:145-150
ExceptIOError ==
    /\ pc = "except_inner"
    /\ IF IsIOError(exc)
       THEN IF ~traceback /\ exc.errno = EPIPE
            THEN /\ stderr' = Append(stderr, Newline)
                 /\ pc' = "return"
            ELSE /\ pc' = "except"
                 /\ UNCHANGED stderr
       ELSE /\ pc' = "except"
            /\ UNCHANGED stderr
    /\ UNCHANGED <<raw_args, env, args_in, kwargs2, debug, traceback, status, args, kwargs,
                   response, stream, stdout, exc, at_raise,
                   requests_calls, returned>>

\* core.py:152-156 without the assignment of core.py:156
ExceptInterrupt_keep ==
    /\ pc = "except"
    /\ IsInterrupt(exc)
    /\ IF traceback
       THEN /\ pc' = "propagated"
            /\ UNCHANGED <<stderr, status>>
       ELSE /\ stderr' = Append(stderr, Newline)
            /\ status' = IF status = EXIT.OK THEN EXIT.ERROR ELSE status
            /\ pc' = "return"
    /\ UNCHANGED <<raw_args, env, args_in, kwargs2, debug, traceback, args, kwargs, response,
                   stream, stdout, exc, at_raise, requests_calls, returned>>

\* core.py:152-156
ExceptInterrupt ==
    /\ pc = "except"
    /\ IsInterrupt(exc)
    /\ IF traceback
       THEN /\ pc' = "propagated"
            /\ UNCHANGED <<stderr, status>>
       ELSE /\ stderr' = Append(stderr, Newline)
            /\ status' = EXIT.ERROR
            /\ pc' = "return"
    /\ UNCHANGED <<raw_args, env, args_in, kwargs2, debug, traceback, args, kwargs, response,
                   stream, stdout, exc, at_raise, requests_calls,
                   returned>>

\* core.py:157-159 keeping a status the status check computed
ExceptTimeout_keep ==
    /\ pc = "except"
    /\ ~IsInterrupt(exc)
    /\ IsTimeout(exc)
    /\ status' = IF status = EXIT.OK THEN EXIT.ERROR_TIMEOUT ELSE status
    /\ stderr' = Append(stderr, error(TimedOutMsg(args.timeout)))
    /\ pc' = "return"
    /\ UNCHANGED <<raw_args, env, args_in, kwargs2, debug, traceback, args, kwargs, response,
                   stream, stdout, exc, at_raise, requests_calls, returned>>

\* core.py:157-159 calling the transport once more
ExceptTimeout_retry ==
    /\ pc = "except"
    /\ ~IsInterrupt(exc)
    /\ IsTimeout(exc)
    /\ IF exc.at = "request" /\ requests_calls < 2
       THEN /\ pc' = "request"
            /\ UNCHANGED <<status, stderr>>
       ELSE /\ status' = EXIT.ERROR_TIMEOUT
            /\ stderr' = Append(stderr, error(TimedOutMsg(args.timeout)))
            /\ pc' = "return"
    /\ UNCHANGED <<raw_args, env, args_in, kwargs2, debug, traceback, args,
                   kwargs, response, stream, stdout, exc, at_raise,
                   requests_calls, returned>>

\* core.py:157-159
ExceptTimeout ==
    /\ pc = "except"
    /\ ~IsInterrupt(exc)
    /\ IsTimeout(exc)
    /\ status' = EXIT.ERROR_TIMEOUT
    /\ stderr' = Append(stderr, error(TimedOutMsg(args.timeout)))
    /\ pc' = "return"
    /\ UNCHANGED <<raw_args, env, args_in, kwargs2, debug, traceback, args, kwargs, response,
                   stream, stdout, exc, at_raise, requests_calls,
                   returned>>

\* core.py:160-166 re-raising whatever traceback is
ExceptException_reraise ==
    /\ pc = "except"
    /\ ~IsInterrupt(exc)
    /\ ~IsTimeout(exc)
    /\ IsException(exc)
    /\ pc' = "propagated"
    /\ UNCHANGED <<stderr, status>>
    /\ UNCHANGED <<raw_args, env, args_in, kwargs2, debug, traceback, args, kwargs, response,
                   stream, stdout, exc, at_raise, requests_calls, returned>>

\* core.py:160-166 with the error written to env.stdout
ExceptException_stdout ==
    /\ pc = "except"
    /\ ~IsInterrupt(exc)
    /\ ~IsTimeout(exc)
    /\ IsException(exc)
    /\ IF traceback
       THEN /\ pc' = "propagated"
            /\ UNCHANGED <<stdout, status>>
       ELSE /\ stdout' = Append(stdout, 0)
            /\ status' = EXIT.ERROR
            /\ pc' = "return"
    /\ UNCHANGED <<raw_args, env, args_in, kwargs2, debug, traceback, args,
                   kwargs, response, stream, stderr, exc, at_raise,
                   requests_calls, returned>>

\* core.py:160-166
ExceptException ==
    /\ pc = "except"
    /\ ~IsInterrupt(exc)
    /\ ~IsTimeout(exc)
    /\ IsException(exc)
    /\ IF traceback
       THEN /\ pc' = "propagated"
            /\ UNCHANGED <<stderr, status>>
       ELSE /\ stderr' = Append(stderr, error(ExceptionMsg(exc)))
            /\ status' = EXIT.ERROR
            /\ pc' = "return"
    /\ UNCHANGED <<raw_args, env, args_in, kwargs2, debug, traceback, args, kwargs, response,
                   stream, stdout, exc, at_raise, requests_calls,
                   returned>>

\* core.py:168
Return ==
    /\ pc = "return"
    /\ returned' = status
    /\ pc' = "returned"
    /\ UNCHANGED <<raw_args, env, args_in, kwargs2, debug, traceback, status, args, kwargs,
                   response, stream, stdout, stderr, exc, at_raise,
                   requests_calls>>

Next ==
    \/ Start
    \/ Parse
    \/ ParseRaise
    \/ Build
    \/ BuildRaise
    \/ Request
    \/ RequestRaise
    \/ CheckStatus
    \/ OutputStream
    \/ OutputStreamRaise
    \/ WriteChunk
    \/ WriteDone
    \/ WriteRaise
    \/ ExceptIOError
    \/ ExceptInterrupt
    \/ ExceptTimeout
    \/ ExceptException
    \/ Return

Spec == Init /\ [][Next]_vars

----------------------------------------------------------------------------
(* get_requests_kwargs called on its own, twice on the same Arguments *)

\* a dict of n items
DictOf(n) == [i \in 1..n |-> <<ToString(i), "v">>]

\* header mappings the parser can hand over
BuilderHeaders ==
    { [n \in S |-> IF n = "Accept" THEN "*/*" ELSE "text/plain"] :
        S \in SUBSET {"Content-Type", "Accept"} }

\* Arguments the parser can hand over: --json and --form exclude each other
BuilderArguments ==
    { [parsed |-> TRUE,
       method |-> m, url |-> "http://x/",
       headers |-> h, data |-> d, json |-> jf[1], form |-> jf[2],
       files |-> fl,
       auth |-> au[1], auth_type |-> au[2],
       verify |-> v, timeout |-> 1, proxy |-> px,
       allow_redirects |-> FALSE, params |-> <<>>,
       check_status |-> FALSE, stream |-> FALSE, debug |-> FALSE] :
         m \in {"GET", "POST"},
         h \in BuilderHeaders,
         d \in {NoData, StrData(<<>>), StrData(<<"raw">>)}
                \cup {DictData(DictOf(n)) : n \in 0..MaxItems},
         jf \in {<<FALSE, FALSE>>, <<TRUE, FALSE>>, <<FALSE, TRUE>>},
         fl \in BOOLEAN,
         au \in {<<NoAuth, "basic">>, <<<<"user", "pw">>, "basic">>,
                 <<<<"user", "pw">>, "digest">>, <<<<"user", "pw">>, "ntlm">>},
         v \in {"yes", "no", "Yes", "/path/ca.pem"},
         px \in {<<>>, << <<"http", "p1">>, <<"http", "p2">> >>} }

BuildInit ==
    /\ raw_args = {}
    /\ env = [stdout_isatty |-> FALSE]
    /\ debug = FALSE
    /\ traceback = FALSE
    /\ status = EXIT.OK
    /\ args \in BuilderArguments
    /\ args_in = args
    /\ kwargs = NoKwargs
    /\ kwargs2 = NoKwargs
    /\ response = NoResponse
    /\ stream = <<>>
    /\ stdout = <<>>
    /\ stderr = <<>>
    /\ pc = "call"
    /\ exc = NoExc
    /\ at_raise = NoRaise
    /\ requests_calls = 0
    /\ returned = NotReturned

\* core.py:36-84, the first call returns
Call ==
    /\ pc = "call"
    /\ ~AuthRaises(args)
    /\ kwargs' = get_requests_kwargs(args)
    /\ args' = MutatedArgs(args)
    /\ pc' = "called"
    /\ UNCHANGED <<raw_args, env, debug, traceback, status, args_in, kwargs2,
                   response, stream, stdout, stderr, exc, at_raise,
                   requests_calls, returned>>

\* core.py:36-64, the call raises KeyError at core.py:64
CallRaise ==
    /\ pc = "call"
    /\ AuthRaises(args)
    /\ args' = MutatedArgs(args)
    /\ exc' = Raised(KeyError(args.auth_type), "build")
    /\ at_raise' = [stderr_len |-> Len(stderr), stdout |-> stdout,
                     status |-> status]
    /\ pc' = "call_raised"
    /\ UNCHANGED <<raw_args, env, debug, traceback, status, args_in, kwargs,
                   kwargs2, response, stream, stdout, stderr, requests_calls,
                   returned>>

\* core.py:36-84, a second call on the same Arguments object
CallAgain ==
    /\ pc = "called"
    /\ kwargs2' = get_requests_kwargs(args)
    /\ args' = MutatedArgs(args)
    /\ pc' = "called_twice"
    /\ UNCHANGED <<raw_args, env, debug, traceback, status, args_in, kwargs,
                   response, stream, stdout, stderr, exc, at_raise,
                   requests_calls, returned>>

BuildNext ==
    \/ Call
    \/ CallRaise
    \/ CallAgain

BuildSpec == BuildInit /\ [][BuildNext]_vars

----------------------------------------------------------------------------
(* Properties *)

\* --debug or --traceback is in the raw argument list
Diagnostic == "--debug" \in raw_args \/ "--traceback" \in raw_args

\* the writes made on stderr since the exception was raised
SinceRaise == SubSeq(stderr, at_raise.stderr_len + 1, Len(stderr))

\* the handling of the exception is over and main goes on to return
Handled == pc \in {"return", "returned"}

\* the exception is in flight or has left main
InFlight == pc \in {"except_inner", "except", "propagated"}

\* a broken output pipe: EPIPE raised by write()
IsBrokenSink(e) == e.type = "IOError" /\ e.errno = "EPIPE" /\ e.at = "write"

\* the exit status the status check is to compute for the response
Mapped == get_exist_status(response.status_code, args.allow_redirects)

\* the status line write of the response
StatusLineWrite ==
    [via |-> "env",
     text |-> <<"\nhttp: error: ", ToString(response.raw.status), " ",
                response.raw.reason, "\n">>]

\* number of times w was written to stderr
Count(w) == Len(SelectSeq(stderr, LAMBDA x : x = w))

\* C1: after the status check of a response with code c under allow_redirects
\* r, the status is ERROR_HTTP_3XX iff 300 <= c <= 399 and not r,
\* ERROR_HTTP_4XX iff 400 <= c <= 499, ERROR_HTTP_5XX iff 500 <= c <= 599,
\* and OK in every other case.
C1_StatusTable ==
    (pc = "output" /\ args.check_status) =>
        LET c == response.status_code
            r == args.allow_redirects
            is3 == c \in 300..399 /\ ~r
            is4 == c \in 400..499
            is5 == c \in 500..599
        IN  /\ status \in ExitStatus
            /\ (status = EXIT.ERROR_HTTP_3XX) <=> is3
            /\ (status = EXIT.ERROR_HTTP_4XX) <=> is4
            /\ (status = EXIT.ERROR_HTTP_5XX) <=> is5
            /\ (status = EXIT.OK) <=> ~(is3 \/ is4 \/ is5)

C1_Witness ==
    /\ pc = "output"
    /\ args.check_status
    /\ response.status_code = 400
    /\ status = EXIT.ERROR_HTTP_4XX

\* C2: without --debug and --traceback no exception leaves main: a run can
\* always go on until main returns, and what it returns is one ExitStatus.
C2_NoEscape ==
    ~Diagnostic =>
        /\ pc # "propagated"
        /\ pc # "returned" => (returned = NotReturned /\ ENABLED Next)
        /\ pc = "returned" => returned \in ExitStatus

C2_Witness ==
    /\ ~Diagnostic
    /\ pc = "returned"
    /\ exc.type = "IOError"
    /\ exc.errno = EIO
    /\ exc.at = "write"
    /\ returned = EXIT.ERROR

\* C3 as stated: in diagnostic mode every failure, a transport timeout
\* included, propagates out of main and main returns no ExitStatus.
C3_AllPropagate ==
    (Diagnostic /\ exc # NoExc) => (InFlight /\ returned = NotReturned)

\* C3 amended: in diagnostic mode every failure other than a transport
\* timeout propagates out of main with nothing written to stderr for it and
\* no status set, and main returns no ExitStatus; a transport timeout is
\* caught in diagnostic mode too and main returns ERROR_TIMEOUT.
C3_PropagateExceptTimeout ==
    /\ (Diagnostic /\ exc # NoExc /\ ~IsTimeout(exc)) =>
          /\ InFlight
          /\ returned = NotReturned
          /\ SinceRaise = <<>>
          /\ status = at_raise.status
          /\ pc # "propagated" => ENABLED Next
    /\ (Diagnostic /\ IsTimeout(exc) /\ pc = "returned") =>
          returned = EXIT.ERROR_TIMEOUT

C3_Witness ==
    /\ Diagnostic
    /\ pc = "propagated"
    /\ IsBrokenSink(exc)
    /\ Len(stdout) = 1

\* C4: once a timeout of the transport is handled, the status is
\* ERROR_TIMEOUT whatever it was before, main returns it, and the one write
\* made on stderr for it is the error line "Request timed out (Ns)." with N
\* the configured timeout.
C4_Timeout ==
    (IsTimeout(exc) /\ Handled) =>
        /\ status = EXIT.ERROR_TIMEOUT
        /\ pc = "returned" => returned = EXIT.ERROR_TIMEOUT
        /\ SinceRaise =
             << [via |-> "env",
                 text |-> <<"\nhttp: error: ", "Request timed out (",
                            ToString(args.timeout), "s).", "\n">>] >>

C4_Witness ==
    /\ IsTimeout(exc)
    /\ pc = "returned"
    /\ at_raise.status = EXIT.ERROR_HTTP_4XX
    /\ returned = EXIT.ERROR_TIMEOUT
    /\ args.timeout = 2

\* C5: without diagnostics a broken output pipe never leaves the inner
\* handler: the status stays the one computed before the write (OK, or the
\* mapped status of the status check), main returns it, the only write on
\* stderr for it is a newline, and the chunks written stay on stdout.
C5_BrokenPipe ==
    (~Diagnostic /\ IsBrokenSink(exc)) =>
        /\ pc \in {"except_inner", "return", "returned"}
        /\ status = at_raise.status
        /\ status = IF args.check_status THEN Mapped ELSE EXIT.OK
        /\ stdout = at_raise.stdout
        /\ Handled => SinceRaise = << [via |-> "env", text |-> <<"\n">>] >>
        /\ pc = "returned" => returned = at_raise.status

C5_Witness ==
    /\ ~Diagnostic
    /\ IsBrokenSink(exc)
    /\ pc = "returned"
    /\ returned = EXIT.ERROR_HTTP_4XX
    /\ Len(stdout) = 1
    /\ stream # <<>>

\* C6: a run that returns without any failure returns OK when check_status
\* is off, whatever the status code, and the mapped status when it is on.
C6_NormalCompletion ==
    (pc = "returned" /\ exc = NoExc) =>
        returned = IF args.check_status THEN Mapped ELSE EXIT.OK

C6_Witness ==
    /\ pc = "returned"
    /\ exc = NoExc
    /\ ~args.check_status
    /\ response.status_code = 500
    /\ returned = EXIT.OK

\* C7 as stated: after the exchange the status line is on stderr once if
\* check_status is on, the mapped status is not OK and stdout is not a
\* terminal, and not at all otherwise; in the other cases of normal
\* completion stderr is empty.
C7_StatusLineOnly ==
    (response.received /\ pc # "check") =>
        LET failed == args.check_status /\ Mapped # EXIT.OK
                      /\ ~env.stdout_isatty
        IN  /\ Count(StatusLineWrite) = IF failed THEN 1 ELSE 0
            /\ (pc = "returned" /\ exc = NoExc /\ ~failed) => stderr = <<>>

\* C7 amended: after the exchange the status line is on stderr once if
\* check_status is on, the mapped status is not OK and stdout is not a
\* terminal, and not at all otherwise; in the other cases of normal
\* completion stderr holds nothing but the output of --debug (the version
\* lines and the dump of the request), and nothing without --debug.
C7_StatusLineOrDebug ==
    (response.received /\ pc # "check") =>
        LET failed == args.check_status /\ Mapped # EXIT.OK
                      /\ ~env.stdout_isatty
        IN  /\ Count(StatusLineWrite) = IF failed THEN 1 ELSE 0
            /\ (pc = "returned" /\ exc = NoExc /\ ~failed) =>
                 /\ SelectSeq(stderr, LAMBDA w : w.via = "env") = <<>>
                 /\ "--debug" \notin raw_args => stderr = <<>>
            /\ (pc = "returned" /\ exc = NoExc /\ failed) =>
                 SelectSeq(stderr, LAMBDA w : w.via = "env")
                     = <<StatusLineWrite>>

C7_Witness ==
    /\ pc = "returned"
    /\ exc = NoExc
    /\ args.check_status
    /\ response.status_code = 404
    /\ ~env.stdout_isatty
    /\ Count(StatusLineWrite) = 1

\* C8: without diagnostics an interrupt at any stage is handled: the status
\* becomes ERROR whatever it was, main returns ERROR, and the only write on
\* stderr for it is a newline.
C8_Interrupt ==
    (~Diagnostic /\ IsInterrupt(exc)) =>
        /\ pc # "propagated"
        /\ Handled =>
             /\ status = EXIT.ERROR
             /\ SinceRaise = << [via |-> "env", text |-> <<"\n">>] >>
        /\ pc = "returned" => returned = EXIT.ERROR

C8_Witness ==
    /\ ~Diagnostic
    /\ exc.type = "KeyboardInterrupt"
    /\ exc.at = "write"
    /\ at_raise.status = EXIT.ERROR_HTTP_5XX
    /\ pc = "returned"
    /\ returned = EXIT.ERROR

\* C9: without diagnostics an exception that is no interrupt, no transport
\* timeout and no broken output pipe is handled: the status becomes ERROR
\* whatever it was, main returns ERROR, and the only write on stderr for it
\* is the error line "<ExceptionKind>: <message>".
C9_OtherException ==
    (~Diagnostic /\ exc # NoExc /\ ~IsInterrupt(exc) /\ ~IsTimeout(exc)
        /\ ~IsBrokenSink(exc)) =>
        /\ pc # "propagated"
        /\ Handled =>
             /\ status = EXIT.ERROR
             /\ SinceRaise =
                  << [via |-> "env",
                      text |-> <<"\nhttp: error: ", exc.type, ": ", exc.msg,
                                 "\n">>] >>
        /\ pc = "returned" => returned = EXIT.ERROR

C9_Witness ==
    /\ ~Diagnostic
    /\ exc.type = "IOError"
    /\ exc.errno = EIO
    /\ exc.at = "write"
    /\ at_raise.status = EXIT.ERROR_HTTP_4XX
    /\ pc = "returned"
    /\ returned = EXIT.ERROR

\* C10: once the builder has run on Arguments with an auth pair and an
\* auth_type other than basic and digest, it has raised KeyError (unless
\* interrupted), no RequestSpec exists and requests.request is never called;
\* a RequestSpec built has the basic or digest credentials of the auth pair,
\* and no credentials when there is no auth pair.
C10_Auth ==
    (args.parsed /\ pc # "build") =>
        /\ (args.auth # NoAuth /\ args.auth_type \notin {"basic", "digest"}) =>
              /\ exc.at = "build"
              /\ exc.type # "KeyboardInterrupt" =>
                    (exc.type = "KeyError" /\ exc.msg = args.auth_type)
              /\ ~kwargs.built
              /\ requests_calls = 0
        /\ kwargs.built =>
              /\ args.auth = NoAuth =>
                    kwargs.auth = [scheme |-> "None", key |-> "", value |-> ""]
              /\ (args.auth # NoAuth /\ args.auth_type = "basic") =>
                    kwargs.auth = [scheme |-> "HTTPBasicAuth",
                                   key |-> args.auth[1], value |-> args.auth[2]]
              /\ (args.auth # NoAuth /\ args.auth_type = "digest") =>
                    kwargs.auth = [scheme |-> "HTTPDigestAuth",
                                   key |-> args.auth[1], value |-> args.auth[2]]

C10_Witness ==
    /\ pc = "returned"
    /\ args.parsed
    /\ args.auth # NoAuth
    /\ args.auth_type = "ntlm"
    /\ exc.type = "KeyError"
    /\ requests_calls = 0
    /\ returned = EXIT.ERROR

\* the builder has returned a RequestSpec
Called == pc \in {"called", "called_twice"}

\* the body of the request for body data d: the JSON text of a dict, a
\* string as it is
Serialized(d) == IF d.kind = "dict" THEN StrData(json_dumps(d.val)) ELSE d

\* C11 as stated: for Arguments with non-empty body data and no Content-Type
\* header, the headers returned hold a Content-Type that is the JSON type or
\* the form type.
C11_OneContentType ==
    (Called /\ DataTruthy(args_in.data)
        /\ ~HasHeader(args_in.headers, "Content-Type")) =>
        /\ HasHeader(kwargs.headers, "Content-Type")
        /\ kwargs.headers["Content-Type"] \in {JSON, FORM}

\* C11 amended: for Arguments with non-empty body data and no Content-Type
\* header, the headers returned hold no Content-Type when the form flag is
\* set and files are attached; in every other case they hold one, the form
\* type when the form flag is set and the JSON type otherwise.
C11_OneContentTypeUnlessFiles ==
    (Called /\ DataTruthy(args_in.data)
        /\ ~HasHeader(args_in.headers, "Content-Type")) =>
        IF args_in.form /\ args_in.files
        THEN ~HasHeader(kwargs.headers, "Content-Type")
        ELSE /\ HasHeader(kwargs.headers, "Content-Type")
             /\ kwargs.headers["Content-Type"] =
                  IF args_in.form THEN FORM ELSE JSON

C11_Witness ==
    /\ Called
    /\ args_in.data = StrData(<<"raw">>)
    /\ ~args_in.json
    /\ ~args_in.form
    /\ ~HasHeader(args_in.headers, "Content-Type")
    /\ HasHeader(kwargs.headers, "Content-Type")
    /\ kwargs.headers["Content-Type"] = JSON

\* C12 as stated: for Arguments with body data, json unset and form unset,
\* the Content-Type returned is the JSON type and the body is the serialized
\* body data.
C12_AutoJson ==
    (Called /\ DataTruthy(args_in.data) /\ ~args_in.json /\ ~args_in.form) =>
        /\ HasHeader(kwargs.headers, "Content-Type")
        /\ kwargs.headers["Content-Type"] = JSON
        /\ kwargs.data = Serialized(args_in.data)

\* C12 amended: for Arguments with body data, json unset and form unset, the
\* body returned is the serialized body data, and the Content-Type returned
\* is the JSON type when the Arguments have no Content-Type header and the
\* header of the Arguments otherwise.
C12_AutoJsonUnlessExplicit ==
    (Called /\ DataTruthy(args_in.data) /\ ~args_in.json /\ ~args_in.form) =>
        /\ HasHeader(kwargs.headers, "Content-Type")
        /\ kwargs.headers["Content-Type"] =
             IF HasHeader(args_in.headers, "Content-Type")
             THEN args_in.headers["Content-Type"]
             ELSE JSON
        /\ kwargs.data = Serialized(args_in.data)

C12_Witness ==
    /\ Called
    /\ args_in.data = DictData(<< <<"1", "v">> >>)
    /\ ~args_in.json
    /\ ~args_in.form
    /\ ~HasHeader(args_in.headers, "Content-Type")
    /\ kwargs.headers["Content-Type"] = JSON
    /\ kwargs.data = StrData(<<"{", "\"", "1", "\": \"", "v", "\"", "}">>)

\* C13: for Arguments with the json flag and an empty dict as body data, the
\* body returned is None, not the text "{}", and the headers returned hold a
\* Content-Type only if the Arguments did, with the same value.
C13_EmptyMapping ==
    (Called /\ JsonBranch(args_in) /\ args_in.data = DictData(<<>>)) =>
        /\ kwargs.data = NoData
        /\ kwargs.data # StrData(<<"{", "}">>)
        /\ HasHeader(kwargs.headers, "Content-Type")
             <=> HasHeader(args_in.headers, "Content-Type")
        /\ HasHeader(kwargs.headers, "Content-Type") =>
             kwargs.headers["Content-Type"] = args_in.headers["Content-Type"]

C13_Witness ==
    /\ Called
    /\ args_in.json
    /\ args_in.data = DictData(<<>>)
    /\ ~HasHeader(args_in.headers, "Content-Type")
    /\ kwargs.data = NoData
    /\ ~HasHeader(kwargs.headers, "Content-Type")

\* C14: for Arguments with the form flag and files attached, the headers
\* returned hold a Content-Type only if the Arguments did, with the same
\* value.
C14_FormFiles ==
    (Called /\ args_in.form /\ args_in.files) =>
        /\ HasHeader(kwargs.headers, "Content-Type")
             <=> HasHeader(args_in.headers, "Content-Type")
        /\ HasHeader(kwargs.headers, "Content-Type") =>
             kwargs.headers["Content-Type"] = args_in.headers["Content-Type"]

C14_Witness ==
    /\ Called
    /\ args_in.form
    /\ args_in.files
    /\ DataTruthy(args_in.data)
    /\ ~HasHeader(args_in.headers, "Content-Type")
    /\ ~HasHeader(kwargs.headers, "Content-Type")

\* C15: after the call the headers and the body data of the Arguments are
\* what they were before it.
C15_NoSideEffects ==
    Called =>
        /\ args.headers = args_in.headers
        /\ args.data = args_in.data

\* C16: a second call on the same Arguments returns a RequestSpec equal to
\* the first.
C16_SecondCallEqual ==
    pc = "called_twice" =>
        /\ kwargs2 = kwargs
        /\ kwargs2.method = kwargs.method
        /\ kwargs2.headers = kwargs.headers
        /\ kwargs2.data = kwargs.data
        /\ kwargs2.verify = kwargs.verify
        /\ kwargs2.auth.scheme = kwargs.auth.scheme
        /\ kwargs2.proxies = kwargs.proxies
        /\ kwargs2.files = kwargs.files
        /\ kwargs2.params = kwargs.params

C16_Witness ==
    /\ pc = "called_twice"
    /\ args_in.data = DictData(<< <<"1", "v">>, <<"2", "v">> >>)
    /\ ~args_in.form
    /\ kwargs.data.kind = "str"
    /\ kwargs2.data = kwargs.data

\* C17: requests.request is called at most once in a run, not at all when
\* parse_args or the builder raised, and never after an exception.
C17_SingleShot ==
    /\ [](/\ requests_calls <= 1
          /\ exc.at \in {"parse", "build"} => requests_calls = 0)
    /\ [][exc # NoExc => requests_calls' = requests_calls]_vars

C17_Witness ==
    /\ pc = "returned"
    /\ IsTimeout(exc)
    /\ exc.at = "request"
    /\ requests_calls = 1

\* C18: the verify of the RequestSpec is True for "yes", False for "no" and
\* the argument itself for every other value.
C18_Verify ==
    Called =>
        kwargs.verify =
            CASE args_in.verify = "yes" -> [t |-> "bool", v |-> "True"]
              [] args_in.verify = "no" -> [t |-> "bool", v |-> "False"]
              [] OTHER -> [t |-> "str", v |-> args_in.verify]

C18_Witness ==
    /\ Called
    /\ args_in.verify = "no"
    /\ kwargs.verify = [t |-> "bool", v |-> "False"]

\* C19: whenever a chunk is on stdout the status check is over and has
\* computed the status, and the status line of a failed check, if it is to
\* be written, is on stderr already.
C19_StatusBeforeOutput ==
    stdout # <<>> =>
        /\ response.received
        /\ pc \notin {"start", "parse", "build", "request", "check", "output"}
        /\ (args.check_status /\ exc = NoExc) => status = Mapped
        /\ (args.check_status /\ Mapped # EXIT.OK /\ ~env.stdout_isatty) =>
              Count(StatusLineWrite) = 1

C19_Witness ==
    /\ pc = "write"
    /\ Len(stdout) = 1
    /\ args.check_status
    /\ response.status_code = 503
    /\ Count(StatusLineWrite) = 1

\* C20: stdout is empty in every run where parse_args, the builder or
\* requests.request raised, and a chunk is on stdout only after
\* requests.request has returned a response.
C20_NoOutputOnFailure ==
    /\ exc.at \in {"parse", "build", "request"} => stdout = <<>>
    /\ stdout # <<>> => (response.received /\ requests_calls = 1)

C20_Witness ==
    /\ pc = "returned"
    /\ exc.type = "ConnectionError"
    /\ exc.at = "request"
    /\ stdout = <<>>
    /\ returned = EXIT.ERROR

====
